---------------------------- MODULE Spec2Model ----------------------------
(***************************************************************************)
(* packages/trigger-sdk/src/v3/auth.ts: the scope encoder flattenScopes,   *)
(* the token issuer createPublicToken, and the configuration wrappers      *)
(* configure and withAuth.                                                 *)
(*                                                                         *)
(* JavaScript values are records [t, s, a, e]: t is the kind of the value, *)
(* s the text of a string (or of a number), a the elements of an array of  *)
(* strings, e the own enumerable entries of a plain object in the order    *)
(* Object.entries yields them (insertion order: the keys are names, never  *)
(* integer-like).  JavaScript strings are TLA+ strings and a template      *)
(* literal is a concatenation with \o.                                     *)
(***************************************************************************)
EXTENDS Naturals, Sequences, FiniteSets, TLC

VARIABLES
  permissions,    \* the argument of one flattenScopes call
  flattened,      \* that call: pending, returned (with the tokens) or threw
  globalConfig,   \* apiClientManager: the process-wide default configuration
  overrides,      \* apiClientManager: each async context's stack of overrides
  lastConfigured, \* the argument of the most recent configure call
  frames,         \* each context's withAuth calls in progress, innermost last
  auth,           \* each context's withAuth call that settled last
  pc,             \* each context's place in createPublicToken
  options,        \* the argument of the context's createPublicToken call
  apiClient,      \* the handle clientOrThrow gave that call
  defaultAtCall,  \* the most recent configure write when that call, unscoped, began
  claims,         \* what generateJWTClaims resolved with
  signerInput,    \* what the call handed to generateJWT
  calls,          \* the collaborators the call invoked, in order
  raised,         \* the collaborator that failed in the call, and its error
  result          \* how the call settled

flattenVars == <<permissions, flattened>>
configVars == <<globalConfig, overrides, lastConfigured, frames, auth>>
tokenVars == <<pc, options, apiClient, defaultAtCall, claims, signerInput, calls, raised, result>>
vars == <<flattenVars, configVars, tokenVars>>

---------------------------------------------------------------------------
(* JavaScript values *)

Val(t, s, a, e) == [t |-> t, s |-> s, a |-> a, e |-> e]
Undefined == Val("undefined", "", <<>>, <<>>)
Null      == Val("null", "", <<>>, <<>>)
True      == Val("true", "", <<>>, <<>>)
False     == Val("false", "", <<>>, <<>>)
Num(s)    == Val("number", s, <<>>, <<>>)
Str(s)    == Val("string", s, <<>>, <<>>)
Arr(a)    == Val("array", "", a, <<>>)
Obj(e)    == Val("object", "", <<>>, e)
Entry(k, v) == [k |-> k, v |-> v]

\* typeof v
TypeOf(v) ==
  CASE v.t = "string" -> "string"
    [] v.t \in {"true", "false"} -> "boolean"
    [] v.t = "number" -> "number"
    [] v.t = "undefined" -> "undefined"
    [] OTHER -> "object"

\* ToBoolean(v): what `if (v)` and `v ? a : b` test
Truthy(v) ==
  /\ v.t \notin {"undefined", "null", "false"}
  /\ ~(v.t = "string" /\ v.s = "")
  /\ ~(v.t = "number" /\ v.s = "0")

IsArray(v) == v.t = "array"

\* Object.entries(v) of an object or an array (index keys "0", "1", ...)
ObjectEntries(v) ==
  IF v.t = "array"
    THEN [i \in 1..Len(v.a) |-> Entry(ToString(i - 1), Str(v.a[i]))]
    ELSE v.e

---------------------------------------------------------------------------
(* flattenScopes *)

\* a bug: the items of a sequence are pushed last to first
RECURSIVE PushItemsReversed(_, _, _, _)
PushItemsReversed(flattenedPermissions, action, property, items) ==
  IF items = <<>> THEN flattenedPermissions
  ELSE Append(PushItemsReversed(flattenedPermissions, action, property, Tail(items)),
              action \o ":" \o property \o ":" \o Head(items))

\* for (const item of value) flattenedPermissions.push(`${action}:${property}:${item}`)
RECURSIVE PushItems(_, _, _, _)
PushItems(flattenedPermissions, action, property, items) ==
  IF items = <<>> THEN flattenedPermissions
  ELSE PushItems(Append(flattenedPermissions,
                        action \o ":" \o property \o ":" \o Head(items)),
                 action, property, Tail(items))

\* a bug: a value that is a number is not skipped but written into a token
PushPropertyStringifies(flattenedPermissions, action, property, value) ==
  IF IsArray(value)
    THEN PushItems(flattenedPermissions, action, property, value.a)
  ELSE IF TypeOf(value) \in {"string", "number"}
    THEN Append(flattenedPermissions, action \o ":" \o property \o ":" \o value.s)
  ELSE flattenedPermissions

\* the body of the loop over Object.entries(properties)
PushProperty(flattenedPermissions, action, property, value) ==
  IF IsArray(value)
    THEN PushItems(flattenedPermissions, action, property, value.a)
  ELSE IF TypeOf(value) = "string"
    THEN Append(flattenedPermissions, action \o ":" \o property \o ":" \o value.s)
  ELSE flattenedPermissions

\* for (const [property, value] of Object.entries(properties))
RECURSIVE PushProperties(_, _, _)
PushProperties(flattenedPermissions, action, entries) ==
  IF entries = <<>> THEN flattenedPermissions
  ELSE PushProperties(
         PushProperty(flattenedPermissions, action, Head(entries).k, Head(entries).v),
         action, Tail(entries))

\* the body of the loop over Object.entries(permissions)
PushAction(flattenedPermissions, action, properties) ==
  IF Truthy(properties)
    THEN IF TypeOf(properties) = "boolean" /\ Truthy(properties)
           THEN Append(flattenedPermissions, action)
         ELSE IF TypeOf(properties) = "object"
           THEN PushProperties(flattenedPermissions, action, ObjectEntries(properties))
         ELSE flattenedPermissions
    ELSE flattenedPermissions

\* for (const [action, properties] of Object.entries(permissions))
RECURSIVE PushActions(_, _)
PushActions(flattenedPermissions, entries) ==
  IF entries = <<>> THEN flattenedPermissions
  ELSE PushActions(PushAction(flattenedPermissions, Head(entries).k, Head(entries).v),
                   Tail(entries))

Returned(v) == [state |-> "returned", value |-> v, error |-> ""]
Threw(err)  == [state |-> "threw", value |-> <<>>, error |-> err]
Pending     == [state |-> "pending", value |-> <<>>, error |-> ""]

\* a bug, or a defence the code does not have: Object.entries(permissions ?? {})
flattenScopesTolerant(p) ==
  IF p.t \in {"undefined", "null"}
    THEN Returned(<<>>)
    ELSE Returned(PushActions(<<>>, ObjectEntries(p)))

\* flattenScopes(permissions); Object.entries(undefined | null) throws a TypeError
flattenScopes(p) ==
  IF p.t \in {"undefined", "null"}
    THEN Threw("TypeError")
    ELSE Returned(PushActions(<<>>, ObjectEntries(p)))

---------------------------------------------------------------------------
(* the API client manager: apiClientManager of @trigger.dev/core/v3 *)

Contexts == {"c1", "c2"}      \* two independent async contexts
Configs == {"tr_A", "tr_B"}   \* a configuration, named by its accessToken
NoConfig == "none"            \* nothing configured

MaxDepth == 2                 \* deepest nesting of withAuth calls in a context

\* the configuration a call made in context t reads: the context's innermost
\* override, or else the process-wide default
EffectiveConfig(g, o, t) == IF o[t] # <<>> THEN o[t][Len(o[t])] ELSE g

\* apiClientManager.clientOrThrow(): the handle, or NoConfig where it throws
clientOrThrow(t) == EffectiveConfig(globalConfig, overrides, t)

\* apiClientManager.setGlobalAPIClientConfiguration(options)
setGlobalAPIClientConfiguration(cfg) ==
  /\ globalConfig' = cfg
  /\ UNCHANGED overrides

\* apiClientManager.runWithConfig(config, fn), up to the call of fn
runWithConfig(t, config) ==
  /\ overrides' = [overrides EXCEPT ![t] = Append(@, config)]
  /\ UNCHANGED globalConfig

\* apiClientManager.runWithConfig(config, fn), once fn has settled
runWithConfigRestore(t) ==
  /\ overrides' = [overrides EXCEPT ![t] = SubSeq(@, 1, Len(@) - 1)]
  /\ UNCHANGED globalConfig

---------------------------------------------------------------------------
(* configure and withAuth *)

NoResult == [kind |-> "none", v |-> ""]
Ok(v)    == [kind |-> "ok", v |-> v]
Err(e)   == [kind |-> "err", v |-> e]

\* no withAuth call settled in the last step
NoAuth == [state |-> "none", context |-> "", scoped |-> FALSE, before |-> NoConfig,
           after |-> NoConfig, default |-> NoConfig, fn |-> NoResult,
           outcome |-> NoResult]

\* the context is running its own code: it is not suspended in createPublicToken
Running(t) == pc[t] \in {"idle", "done"}

\* the context's createPublicToken call is over: its record is dropped
ForgetCall(t) ==
  /\ pc' = [pc EXCEPT ![t] = "idle"]
  /\ options' = [options EXCEPT ![t] = Undefined]
  /\ apiClient' = [apiClient EXCEPT ![t] = NoConfig]
  /\ defaultAtCall' = [defaultAtCall EXCEPT ![t] = NoConfig]
  /\ claims' = [claims EXCEPT ![t] = <<>>]
  /\ signerInput' = [signerInput EXCEPT ![t] = <<>>]
  /\ calls' = [calls EXCEPT ![t] = <<>>]
  /\ raised' = [raised EXCEPT ![t] = <<>>]
  /\ result' = [result EXCEPT ![t] = NoResult]

\* a bug: configure also replaces the override every context is running under
configureClobbersOverrides(cfg) ==
  /\ globalConfig' = cfg
  /\ overrides' = [t \in Contexts |->
                     IF overrides[t] = <<>> THEN <<>>
                     ELSE [overrides[t] EXCEPT ![Len(overrides[t])] = cfg]]
  /\ lastConfigured' = cfg
  /\ auth' = NoAuth
  /\ UNCHANGED <<frames, flattenVars, tokenVars>>

\* configure(options), called from any context
configure(cfg) ==
  /\ setGlobalAPIClientConfiguration(cfg)
  /\ lastConfigured' = cfg
  /\ auth' = NoAuth
  /\ UNCHANGED <<frames, flattenVars, tokenVars>>

\* a bug: withAuth installs config as the process-wide default, as configure does
withAuthGlobal(t, config) ==
  /\ Running(t)
  /\ Len(frames[t]) < MaxDepth
  /\ setGlobalAPIClientConfiguration(config)
  /\ frames' = [frames EXCEPT ![t] =
                  Append(@, [config |-> config,
                             scoped |-> overrides[t] # <<>>,
                             before |-> EffectiveConfig(globalConfig, overrides, t)])]
  /\ auth' = NoAuth
  /\ ForgetCall(t)
  /\ UNCHANGED <<lastConfigured, flattenVars>>

\* withAuth(config, fn) in context t, up to the call of fn
withAuth(t, config) ==
  /\ Running(t)
  /\ Len(frames[t]) < MaxDepth
  /\ runWithConfig(t, config)
  /\ frames' = [frames EXCEPT ![t] =
                  Append(@, [config |-> config,
                             scoped |-> overrides[t] # <<>>,
                             before |-> EffectiveConfig(globalConfig, overrides, t)])]
  /\ auth' = NoAuth
  /\ ForgetCall(t)
  /\ UNCHANGED <<lastConfigured, flattenVars>>

\* how the callback of withAuth may settle: with the outcome of the
\* createPublicToken call it awaited last, or else with a value or an error of
\* its own
FnOutcomes(t) ==
  IF pc[t] = "done" THEN {result[t]} ELSE {Ok("value"), Err("CallbackError")}

\* what the promise of withAuth settles with: `return runWithConfig(config, fn)`
\* adopts the promise of runWithConfig, which settles as fn does
withAuthSettlesWith(fnOutcome) == fnOutcome

\* the callback of the innermost withAuth call of context t settles with o, and
\* so does the withAuth call
FnSettles(t, o) ==
  /\ Running(t)
  /\ frames[t] # <<>>
  /\ runWithConfigRestore(t)
  /\ frames' = [frames EXCEPT ![t] = SubSeq(@, 1, Len(@) - 1)]
  /\ auth' = [state |-> "settled",
              context |-> t,
              scoped |-> frames[t][Len(frames[t])].scoped,
              before |-> frames[t][Len(frames[t])].before,
              after |-> EffectiveConfig(globalConfig', overrides', t),
              default |-> lastConfigured,
              fn |-> o,
              outcome |-> withAuthSettlesWith(o)]
  /\ ForgetCall(t)
  /\ UNCHANGED <<lastConfigured, flattenVars>>

---------------------------------------------------------------------------
(* createPublicToken *)

\* obj.key of a plain object; undefined when the object has no such key
Get(obj, key) ==
  IF \E i \in 1..Len(obj.e) : obj.e[i].k = key
    THEN obj.e[CHOOSE i \in 1..Len(obj.e) : obj.e[i].k = key].v
    ELSE Undefined

\* options?.key
OptionalGet(opts, key) ==
  IF opts.t \in {"undefined", "null"} THEN Undefined ELSE Get(opts, key)

\* a bug: { ...claims, scopes: flattenScopes(options?.scopes ?? {}) }
SigningPayloadEmptyScopes(c, opts) ==
  [k \in DOMAIN c \cup {"scopes"} |->
     IF k = "scopes"
       THEN IF Truthy(OptionalGet(opts, "scopes"))
              THEN Arr(flattenScopes(OptionalGet(opts, "scopes")).value)
              ELSE Arr(<<>>)
       ELSE c[k]]

\* a bug: { scopes: ..., ...claims }, where a scopes field of the claims wins
SigningPayloadClaimsLast(c, opts) ==
  [k \in DOMAIN c \cup {"scopes"} |->
     IF k \in DOMAIN c
       THEN c[k]
       ELSE IF Truthy(OptionalGet(opts, "scopes"))
              THEN Arr(flattenScopes(OptionalGet(opts, "scopes")).value)
              ELSE Undefined]

\* { ...claims, scopes: options?.scopes ? flattenScopes(options.scopes) : undefined }
\* An object is a function of its keys; a key given twice keeps the later value.
SigningPayload(c, opts) ==
  [k \in DOMAIN c \cup {"scopes"} |->
     IF k = "scopes"
       THEN IF Truthy(OptionalGet(opts, "scopes"))
              THEN Arr(flattenScopes(OptionalGet(opts, "scopes")).value)
              ELSE Undefined
       ELSE c[k]]

\* whether building the payload throws (flattenScopes does)
PayloadThrows(opts) ==
  /\ Truthy(OptionalGet(opts, "scopes"))
  /\ flattenScopes(OptionalGet(opts, "scopes")).state = "threw"

DocScopes == Obj(<<Entry("read", Obj(<<Entry("tags", Arr(<<"file:1234">>))>>))>>)

\* the arguments createPublicToken is called with
OptionsSet ==
  {Undefined,
   Obj(<<Entry("expirationTime", Str("1h"))>>),
   Obj(<<Entry("scopes", Obj(<<>>))>>),
   Obj(<<Entry("scopes", DocScopes), Entry("expirationTime", Str("1h"))>>)}

\* what generateJWTClaims resolves with: two claims objects that differ only in
\* a scopes field
PlainClaims == [sub |-> Str("env_1"), pub |-> True]
ClaimsSet ==
  {PlainClaims, [sub |-> Str("env_1"), pub |-> True, scopes |-> Arr(<<"admin">>)]}

ClaimsErrors == {"TransportError", "AuthError"}

\* the call of context t ends: the promise of createPublicToken settles with r
Settle(t, r) ==
  /\ result' = [result EXCEPT ![t] = r]
  /\ pc' = [pc EXCEPT ![t] = "done"]
  /\ options' = [options EXCEPT ![t] = Undefined]
  /\ apiClient' = [apiClient EXCEPT ![t] = NoConfig]
  /\ defaultAtCall' = [defaultAtCall EXCEPT ![t] = NoConfig]
  /\ claims' = [claims EXCEPT ![t] = <<>>]
  /\ signerInput' = [signerInput EXCEPT ![t] = <<>>]

\* createPublicToken(options) in context t, up to its first await: clientOrThrow(),
\* then the call of generateJWTClaims()
createPublicToken(t, opts) ==
  /\ Running(t)
  /\ auth' = NoAuth
  /\ IF clientOrThrow(t) = NoConfig
       THEN /\ calls' = [calls EXCEPT ![t] = <<"clientOrThrow">>]
            /\ raised' = [raised EXCEPT ![t] = <<"clientOrThrow", "NotConfiguredError">>]
            /\ Settle(t, Err("NotConfiguredError"))
       ELSE /\ calls' = [calls EXCEPT ![t] = <<"clientOrThrow", "generateJWTClaims">>]
            /\ raised' = [raised EXCEPT ![t] = <<>>]
            /\ result' = [result EXCEPT ![t] = NoResult]
            /\ options' = [options EXCEPT ![t] = opts]
            /\ apiClient' = [apiClient EXCEPT ![t] = clientOrThrow(t)]
            /\ defaultAtCall' = [defaultAtCall EXCEPT ![t] =
                 IF frames[t] = <<>> THEN lastConfigured ELSE NoConfig]
            /\ claims' = [claims EXCEPT ![t] = <<>>]
            /\ signerInput' = [signerInput EXCEPT ![t] = <<>>]
            /\ pc' = [pc EXCEPT ![t] = "claims"]
  /\ UNCHANGED <<flattenVars, globalConfig, overrides, lastConfigured, frames>>

\* await apiClient.generateJWTClaims() resolves with c: the payload is built and
\* internal_generateJWT is called
ClaimsResolve(t, c) ==
  /\ pc[t] = "claims"
  /\ auth' = NoAuth
  /\ IF PayloadThrows(options[t])
       THEN /\ raised' = [raised EXCEPT ![t] = <<"flattenScopes", "TypeError">>]
            /\ Settle(t, Err("TypeError"))
            /\ UNCHANGED calls
       ELSE /\ claims' = [claims EXCEPT ![t] = c]
            /\ signerInput' = [signerInput EXCEPT ![t] =
                 [secretKey |-> apiClient[t],
                  payload |-> SigningPayload(c, options[t]),
                  expirationTime |-> OptionalGet(options[t], "expirationTime")]]
            /\ calls' = [calls EXCEPT ![t] = Append(@, "generateJWT")]
            /\ pc' = [pc EXCEPT ![t] = "sign"]
            /\ UNCHANGED <<raised, result, options, apiClient, defaultAtCall>>
  /\ UNCHANGED <<flattenVars, globalConfig, overrides, lastConfigured, frames>>

\* a bug: the rejection is caught and the token is signed with no claims
ClaimsRejectSwallowed(t, e) ==
  /\ pc[t] = "claims"
  /\ auth' = NoAuth
  /\ raised' = [raised EXCEPT ![t] = <<"generateJWTClaims", e>>]
  /\ claims' = [claims EXCEPT ![t] = <<>>]
  /\ signerInput' = [signerInput EXCEPT ![t] =
       [secretKey |-> apiClient[t],
        payload |-> SigningPayload(<<>>, options[t]),
        expirationTime |-> OptionalGet(options[t], "expirationTime")]]
  /\ calls' = [calls EXCEPT ![t] = Append(@, "generateJWT")]
  /\ pc' = [pc EXCEPT ![t] = "sign"]
  /\ UNCHANGED <<flattenVars, globalConfig, overrides, lastConfigured, frames,
                 result, options, apiClient, defaultAtCall>>

\* await apiClient.generateJWTClaims() rejects with e: so does createPublicToken
ClaimsReject(t, e) ==
  /\ pc[t] = "claims"
  /\ auth' = NoAuth
  /\ raised' = [raised EXCEPT ![t] = <<"generateJWTClaims", e>>]
  /\ Settle(t, Err(e))
  /\ UNCHANGED <<flattenVars, globalConfig, overrides, lastConfigured, frames, calls>>

\* await internal_generateJWT(...) resolves with the token
SignResolve(t) ==
  /\ pc[t] = "sign"
  /\ auth' = NoAuth
  /\ Settle(t, Ok("jwt"))
  /\ UNCHANGED <<flattenVars, globalConfig, overrides, lastConfigured, frames,
                 calls, raised>>

\* await internal_generateJWT(...) rejects
SignReject(t) ==
  /\ pc[t] = "sign"
  /\ auth' = NoAuth
  /\ raised' = [raised EXCEPT ![t] = <<"generateJWT", "TokenGenerationError">>]
  /\ Settle(t, Err("TokenGenerationError"))
  /\ UNCHANGED <<flattenVars, globalConfig, overrides, lastConfigured, frames, calls>>

InitCalls ==
  /\ globalConfig = NoConfig
  /\ overrides = [t \in Contexts |-> <<>>]
  /\ lastConfigured = NoConfig
  /\ frames = [t \in Contexts |-> <<>>]
  /\ auth = NoAuth
  /\ pc = [t \in Contexts |-> "idle"]
  /\ options = [t \in Contexts |-> Undefined]
  /\ apiClient = [t \in Contexts |-> NoConfig]
  /\ defaultAtCall = [t \in Contexts |-> NoConfig]
  /\ claims = [t \in Contexts |-> <<>>]
  /\ signerInput = [t \in Contexts |-> <<>>]
  /\ calls = [t \in Contexts |-> <<>>]
  /\ raised = [t \in Contexts |-> <<>>]
  /\ result = [t \in Contexts |-> NoResult]

Init ==
  /\ permissions = Undefined
  /\ flattened = Pending
  /\ InitCalls

\* two contexts, whose withAuth calls and token calls overlap in every way
Next ==
  \/ \E cfg \in Configs : configure(cfg)
  \/ \E t \in Contexts, cfg \in Configs : withAuth(t, cfg)
  \/ \E t \in Contexts : \E o \in FnOutcomes(t) : FnSettles(t, o)
  \/ \E t \in Contexts : createPublicToken(t, Undefined)
  \/ \E t \in Contexts : ClaimsResolve(t, PlainClaims)
  \/ \E t \in Contexts, e \in ClaimsErrors : ClaimsReject(t, e)
  \/ \E t \in Contexts : SignResolve(t)
  \/ \E t \in Contexts : SignReject(t)

Spec == Init /\ [][Next]_vars

\* one context, every argument of createPublicToken and every claims object
NextToken ==
  \/ \E cfg \in Configs : configure(cfg)
  \/ \E cfg \in Configs : withAuth("c1", cfg)
  \/ \E o \in FnOutcomes("c1") : FnSettles("c1", o)
  \/ \E opts \in OptionsSet : createPublicToken("c1", opts)
  \/ \E c \in ClaimsSet : ClaimsResolve("c1", c)
  \/ \E e \in ClaimsErrors : ClaimsReject("c1", e)
  \/ SignResolve("c1")
  \/ SignReject("c1")

SpecToken == Init /\ [][NextToken]_vars

---------------------------------------------------------------------------
(* the scope requests flattenScopes is applied to *)

MaxItems == 2     \* longest array of a property
MaxProps == 2     \* most properties of one action

Items == {"t1", "t2"}
PropertyNames == {"tasks", "tags", "runs"}

Arrays == UNION {[1..n -> Items] : n \in 0..MaxItems}

\* what the type PublicTokenPermissionProperties allows as a property's value
TypedValues == {Str("x"), Str("file:1234"), True} \cup {Arr(a) : a \in Arrays}
\* what only an untyped caller can pass
UntypedValues == {Null, Num("7"), Obj(<<>>)}
PropertyValues == TypedValues \cup UntypedValues

Distinct(ks) == \A i, j \in 1..Len(ks) : i # j => ks[i] # ks[j]

PropertyKeySeqs ==
  {ks \in UNION {[1..n -> PropertyNames] : n \in 0..MaxProps} : Distinct(ks)}

\* the properties record with the keys ks and the values vs, in that order
PropertyRecord(ks, vs) == Obj([i \in 1..Len(ks) |-> Entry(ks[i], vs[i])])

\* the value of the `read` action when it is no properties record: absent, null,
\* true, or (untyped) an array
OtherReadValues == {Undefined, Null, True, Arr(<<"t1">>)}
\* a second action ("Add more actions as needed"), to see the order of actions
WriteValues == {Undefined, True, Obj(<<Entry("tags", Arr(<<"t2", "t1">>))>>),
                Obj(<<Entry("batch", Str("b1")), Entry("runs", Num("7"))>>)}

\* `read` alone, or `read` and `write` in either order
Requests(r) ==
  {Obj(<<Entry("read", r)>>)}
    \cup {Obj(<<Entry("read", r), Entry("write", w)>>) : w \in WriteValues}
    \cup {Obj(<<Entry("write", w), Entry("read", r)>>) : w \in WriteValues}

\* the scope requests: absent, empty, and those of every value of `read`
InitFlatten ==
  /\ \/ permissions \in {Undefined, Obj(<<>>)}
     \/ \E r \in OtherReadValues : permissions \in Requests(r)
     \/ \E ks \in PropertyKeySeqs : \E vs \in [1..Len(ks) -> PropertyValues] :
          permissions \in Requests(PropertyRecord(ks, vs))
  /\ flattened = Pending
  /\ InitCalls

\* one call flattenScopes(permissions)
Flatten ==
  /\ flattened.state = "pending"
  /\ flattened' = flattenScopes(permissions)
  /\ UNCHANGED <<permissions, configVars, tokenVars>>

NextFlatten == Flatten

SpecFlatten == InitFlatten /\ [][NextFlatten]_vars

---------------------------------------------------------------------------
(* properties of flattenScopes, checked under SpecFlatten *)

StartsWith(s, prefix) ==
  Len(s) >= Len(prefix) /\ SubSeq(s, 1, Len(prefix)) = prefix

Occurrences(seq, x) == Cardinality({n \in 1..Len(seq) : seq[n] = x})

\* the `read` record of the request has runs: true
HasRunsTrue(p) ==
  /\ p.t = "object"
  /\ \E i \in 1..Len(p.e) :
       /\ p.e[i].k = "read"
       /\ p.e[i].v.t = "object"
       /\ \E j \in 1..Len(p.e[i].v.e) :
            p.e[i].v.e[j].k = "runs" /\ p.e[i].v.e[j].v = True

\* C1: for every scope request whose `read` record has runs: true, the returned
\* sequence contains the bare token "read" exactly once and no token that begins
\* with "read:runs:".
C1_RunsTrueYieldsBareRead ==
  (flattened.state # "pending" /\ HasRunsTrue(permissions)) =>
    /\ flattened.state = "returned"
    /\ Occurrences(flattened.value, "read") = 1
    /\ \A n \in 1..Len(flattened.value) : ~StartsWith(flattened.value[n], "read:runs:")

RunsTrueWithTasks ==
  Obj(<<Entry("read", Obj(<<Entry("runs", True),
                            Entry("tasks", Arr(<<"t1", "t2">>))>>))>>)

\* C2: for the input { read: { runs: true, tasks: ["t1","t2"] } } the result is
\* exactly ["read", "read:tasks:t1", "read:tasks:t2"], in that order.
C2_RunsTrueKeepsSiblings ==
  (flattened.state # "pending" /\ permissions = RunsTrueWithTasks) =>
    flattened = Returned(<<"read", "read:tasks:t1", "read:tasks:t2">>)

\* every action's value is a properties record whose values are strings or
\* sequences of strings
WellTyped(p) ==
  /\ p.t = "object"
  /\ \A i \in 1..Len(p.e) :
       /\ p.e[i].v.t = "object"
       /\ \A j \in 1..Len(p.e[i].v.e) : p.e[i].v.e[j].v.t \in {"string", "array"}

RECURSIVE ConcatAll(_)
ConcatAll(seqs) == IF seqs = <<>> THEN <<>> ELSE Head(seqs) \o ConcatAll(Tail(seqs))

\* the tokens of one property: one for a string, one per element for a sequence
TokensOfProperty(action, entry) ==
  IF entry.v.t = "string"
    THEN <<action \o ":" \o entry.k \o ":" \o entry.v.s>>
    ELSE [n \in 1..Len(entry.v.a) |-> action \o ":" \o entry.k \o ":" \o entry.v.a[n]]

TokensOfAction(entry) ==
  ConcatAll([j \in 1..Len(entry.v.e) |-> TokensOfProperty(entry.k, entry.v.e[j])])

ExpectedTokens(p) == ConcatAll([i \in 1..Len(p.e) |-> TokensOfAction(p.e[i])])

\* C3: for every scope mapping whose property values are strings or sequences of
\* strings, flattenScopes returns exactly the concatenation, over actions in
\* insertion order and then properties in insertion order, of the token
\* "<action>:<property>:<value>" of a string and the tokens
\* "<action>:<property>:<element>" of a sequence in element order; a value that
\* contains colons is appended unchanged.
C3_OrderedConcatenation ==
  (flattened.state # "pending" /\ WellTyped(permissions)) =>
    flattened = Returned(ExpectedTokens(permissions))

C3_Witness ==
  /\ permissions =
       Obj(<<Entry("read", Obj(<<Entry("tags", Arr(<<"t2", "t1">>)),
                                 Entry("tasks", Str("file:1234"))>>)),
             Entry("write", Obj(<<Entry("tags", Arr(<<"t2", "t1">>))>>))>>)
  /\ flattened = Returned(<<"read:tags:t2", "read:tags:t1", "read:tasks:file:1234",
                            "write:tags:t2", "write:tags:t1">>)

\* C4 as claimed: flattenScopes applied to an empty mapping and to an absent
\* (undefined) mapping both return the empty sequence without raising an error.
C4_EmptyOrAbsentYieldsEmpty ==
  (flattened.state # "pending" /\ permissions \in {Obj(<<>>), Undefined}) =>
    flattened = Returned(<<>>)

\* C4 as amended: flattenScopes applied to an empty mapping returns the empty
\* sequence without raising an error; applied to an absent (undefined) mapping
\* it raises a TypeError.
C4_EmptyYieldsEmptyAbsentThrows ==
  flattened.state # "pending" =>
    /\ permissions = Obj(<<>>) => flattened = Returned(<<>>)
    /\ permissions = Undefined => flattened = Threw("TypeError")

C4_Witness ==
  permissions = Obj(<<>>) /\ flattened.state = "returned" /\ flattened.value = <<>>

Supported(v) == v.t \in {"string", "array"}

\* the request without the properties whose value is neither a string nor a
\* sequence, and without the actions whose value is absent
StripProperties(properties) ==
  IF properties.t = "object"
    THEN Obj(SelectSeq(properties.e, LAMBDA en : Supported(en.v)))
    ELSE properties

StripUnsupported(p) ==
  LET kept == SelectSeq(p.e, LAMBDA en : en.v # Undefined)
  IN  Obj([i \in 1..Len(kept) |-> Entry(kept[i].k, StripProperties(kept[i].v))])

\* C5: for every scope mapping, a property whose value is neither a string nor a
\* sequence contributes no token and raises no error, an action whose value is
\* absent is skipped, and the tokens of all other actions and properties are the
\* same as if the unsupported entry were not present.
C5_TolerantEncoder ==
  (flattened.state # "pending" /\ permissions.t = "object") =>
    /\ flattened.state = "returned"
    /\ flattened.value = flattenScopes(StripUnsupported(permissions)).value

C5_Witness ==
  /\ permissions =
       Obj(<<Entry("read", Obj(<<Entry("tasks", Num("7")), Entry("tags", Str("x"))>>)),
             Entry("write", Undefined)>>)
  /\ flattened = Returned(<<"read:tags:x">>)

---------------------------------------------------------------------------
(* properties of createPublicToken, checked under SpecToken *)

\* the call of context t has handed its payload to generateJWT
Signing(t) == pc[t] = "sign"

\* C6 as claimed: the payload handed to generateJWT has a scopes field equal to
\* flattenScopes(options.scopes) when scopes were supplied, and no scopes field
\* at all when they were omitted.
C6_ScopesFieldAbsentWhenOmitted ==
  \A t \in Contexts : Signing(t) =>
    LET sc == OptionalGet(options[t], "scopes")
        payload == signerInput[t].payload
    IN  /\ sc # Undefined =>
             /\ "scopes" \in DOMAIN payload
             /\ payload["scopes"] = Arr(flattenScopes(sc).value)
        /\ sc = Undefined => "scopes" \notin DOMAIN payload

\* C6 as amended: the payload handed to generateJWT has a scopes field equal to
\* flattenScopes(options.scopes) when scopes were supplied; when they were
\* omitted the scopes field is present with the value undefined, never an empty
\* sequence.
C6_ScopesFieldUndefinedWhenOmitted ==
  \A t \in Contexts : Signing(t) =>
    LET sc == OptionalGet(options[t], "scopes")
        payload == signerInput[t].payload
    IN  /\ "scopes" \in DOMAIN payload
        /\ sc # Undefined => payload["scopes"] = Arr(flattenScopes(sc).value)
        /\ sc = Undefined => payload["scopes"] = Undefined

C6_Witness ==
  /\ Signing("c1")
  /\ options["c1"] = Obj(<<Entry("expirationTime", Str("1h"))>>)
  /\ signerInput["c1"].payload["scopes"] = Undefined
  /\ signerInput["c1"].expirationTime = Str("1h")

Order == <<"clientOrThrow", "generateJWTClaims", "generateJWT">>

IsPrefix(a, b) == Len(a) <= Len(b) /\ a = SubSeq(b, 1, Len(a))

\* C7: the collaborators are invoked in the order clientOrThrow,
\* generateJWTClaims, generateJWT, each at most once; a failure at any step ends
\* the call with that same error, no later step is invoked after the failing
\* one, and nothing is retried.
C7_OrderAndPropagation ==
  \A t \in Contexts :
    /\ IsPrefix(calls[t], Order)
    /\ pc[t] = "claims" => calls[t] = SubSeq(Order, 1, 2)
    /\ pc[t] = "sign" => calls[t] = Order
    /\ raised[t] # <<>> =>
         /\ pc[t] = "done"
         /\ result[t] = Err(raised[t][2])
         /\ calls[t] # <<>> /\ calls[t][Len(calls[t])] = raised[t][1]
    /\ raised[t] = <<>> /\ pc[t] = "done" => result[t] = Ok("jwt") /\ calls[t] = Order
    /\ (pc[t] = "done" /\ calls[t] = <<"clientOrThrow">>) =>
         result[t] = Err("NotConfiguredError")

C7_Witness ==
  /\ pc["c1"] = "done"
  /\ calls["c1"] = <<"clientOrThrow", "generateJWTClaims">>
  /\ raised["c1"] = <<"generateJWTClaims", "AuthError">>
  /\ result["c1"] = Err("AuthError")

\* the two claims objects agree on every field but scopes
DifferOnlyInScopes(c1, c2) ==
  /\ DOMAIN c1 \ {"scopes"} = DOMAIN c2 \ {"scopes"}
  /\ \A k \in DOMAIN c1 \ {"scopes"} : c1[k] = c2[k]

\* C10: the scopes entry of the signing payload depends only on options.scopes:
\* for two claims objects that differ only in a scopes field and the same
\* options it is identical, a scopes value of the claims never reaches the
\* signer, even when options.scopes is omitted, and every other claims field is
\* passed through unchanged.
C10_ScopesDependOnlyOnOptions ==
  \A t \in Contexts : Signing(t) =>
    LET payload == signerInput[t].payload
    IN  /\ DOMAIN payload = DOMAIN claims[t] \cup {"scopes"}
        /\ \A k \in DOMAIN claims[t] \ {"scopes"} : payload[k] = claims[t][k]
        /\ \A c2 \in ClaimsSet : DifferOnlyInScopes(claims[t], c2) =>
             SigningPayload(c2, options[t])["scopes"] = payload["scopes"]
        /\ OptionalGet(options[t], "scopes") = Undefined => payload["scopes"] = Undefined

C10_Witness ==
  /\ Signing("c1")
  /\ "scopes" \in DOMAIN claims["c1"]
  /\ claims["c1"]["scopes"] = Arr(<<"admin">>)
  /\ options["c1"] = Undefined
  /\ signerInput["c1"].payload["scopes"] = Undefined
  /\ signerInput["c1"].payload["sub"] = Str("env_1")

---------------------------------------------------------------------------
(* properties of withAuth and configure, checked under Spec *)

Top(stack) == stack[Len(stack)]

\* a createPublicToken call made inside withAuth(config, fn) reads config
RunsUnderOwnConfig(t) ==
  (frames[t] # <<>> /\ pc[t] \in {"claims", "sign"}) =>
    apiClient[t] = Top(frames[t]).config

===========================================================================
